---- MODULE Spec2Model ----
(***************************************************************************)
(* A model of the spatial crate: Quadtree (src/src/quadtree/mod.rs) and    *)
(* Octree (src/src/octree/mod.rs).                                         *)
(*                                                                         *)
(* Scalars.  The crate is generic over a float type T.  Every scalar the   *)
(* model handles is a dyadic rational k / Scale that f32 and f64 represent *)
(* exactly, so float arithmetic on them is exact; a scalar is modelled by  *)
(* the integer k.  Halving (`max[i].div(val2)`) is exact as long as the    *)
(* subdivision depth stays below log2(Scale): a node at depth d exists     *)
(* only after d earlier insert calls, hence Scale == 2^MaxInserts.         *)
(*                                                                         *)
(* Trees.  A node is a record with the fields of the Rust struct.  The     *)
(* Option<[Box<_>; N]> of children is the empty sequence for None and the  *)
(* sequence of the N child nodes for Some.                                 *)
(***************************************************************************)
EXTENDS Integers, Sequences, FiniteSets, TLC

\* ------------------------------------------------------------------ bounds
\* Number of insert calls made on one tree.
MaxInserts == 4
\* Largest node capacity handed to with_capacity.
MaxCap == 2
\* Largest radius handed to get_in_radius, in grid units.
MaxRadius == 2

\* One grid unit, in model scalars.
Scale == 2 ^ MaxInserts

\* ------------------------------------------------------------------ items
\* The item type of the crate's documentation: a Monster with x, y and z.
Monster(x, y, z) == [x |-> x * Scale, y |-> y * Scale, z |-> z * Scale]

\* impl quadtree::Index<f32> for Monster
QuadtreeIndex(item) == <<item.x, item.y>>

\* impl octree::Index<f32> for Monster
OctreeIndex(item) == <<item.x, item.y, item.z>>

\* The monsters offered to insert (grid units).
Monsters ==
    { Monster(1, 1, 1), Monster(2, 2, 2), Monster(3, 3, 3),
      Monster(2, 1, 1), Monster(1, 1, 3), Monster(5, 5, 5) }

\* ----------------------------------------------------------------- Volume
\* Volume::new(min, max)
VolumeNew(min, max) == [min |-> min, max |-> max]

\* Volume::contains(point): inclusive on both ends, on every axis.
Contains(vol, point) ==
    \A i \in DOMAIN point : vol.min[i] <= point[i] /\ point[i] <= vol.max[i]

\* Volume::intersects(other): the boxes overlap on every axis.
Intersects(vol, other) ==
    \A i \in DOMAIN vol.min :
        ~(other.max[i] < vol.min[i] \/ other.min[i] > vol.max[i])

\* `x.div(val2)` with val2 = NumCast::from(2)
Div2(x) == x \div 2

\* --------------------------------------------------------------- Quadtree
\* Quadtree::with_capacity(vol, capacity): an empty node without quadrants.
QuadtreeWithCapacity(vol, capacity) ==
    [capacity |-> capacity, items |-> <<>>, volume |-> vol, quadrants |-> <<>>]

\* Quadtree::len: own items plus the len of every quadrant.
RECURSIVE QuadtreeLen(_)
RECURSIVE QuadtreeLenFrom(_, _)
QuadtreeLenFrom(quadrants, k) ==
    IF k > Len(quadrants) THEN 0
    ELSE QuadtreeLen(quadrants[k]) + QuadtreeLenFrom(quadrants, k + 1)

\* A len that forgets the quadrants.
QuadtreeLenOwnItems(node) ==
    Len(node.items)

QuadtreeLen(node) ==
    Len(node.items) + QuadtreeLenFrom(node.quadrants, 1)

\* Quadtree::subdivide: `quadrants = Some([...])`, four nodes of the
\* parent's capacity, with the corners the code computes.
QuadtreeSubdivide(node) ==
    LET min == node.volume.min
        max == node.volume.max
        hw  == Div2(max[1])
        hh  == Div2(max[2])
    IN [node EXCEPT !.quadrants = <<
          QuadtreeWithCapacity(VolumeNew(<<min[1], min[2]>>, <<hw, hh>>), node.capacity),
          QuadtreeWithCapacity(VolumeNew(<<min[1] + hh, min[2]>>, <<max[1], hh>>), node.capacity),
          QuadtreeWithCapacity(VolumeNew(<<min[1], min[2] + hh>>, <<hw, max[2]>>), node.capacity),
          QuadtreeWithCapacity(VolumeNew(<<min[1] + hw, min[2] + hh>>, <<max[1], max[2]>>), node.capacity)
        >>]

\* A containment test that looks at the first axis only.
QuadtreeOutsideFirstAxis(node, item) ==
    item.x < node.volume.min[1] \/ item.x > node.volume.max[1]

\* insert, first test: the item must lie inside this node's volume.
QuadtreeOutside(node, item) ==
    ~Contains(node.volume, QuadtreeIndex(item))

\* A room test that is off by one.
QuadtreeHasRoomInclusive(node) ==
    Len(node.items) <= node.capacity

\* insert, second test: `self.items.len() < self.capacity`.
QuadtreeHasRoom(node) ==
    Len(node.items) < node.capacity

\* insert: `self.items.push(item.clone())`.
QuadtreePush(node, item) ==
    [node EXCEPT !.items = Append(@, item)]

\* insert: what the call returns once the match on `quadrants` took the
\* None arm (subdivide) or ran through every quadrant: the trailing `false`.
QuadtreeFallThrough(node) ==
    [node |-> node, ok |-> FALSE]

\* Quadtree::insert.  The result is the node after the call and the bool
\* the call returns.
RECURSIVE QuadtreeInsert(_, _)
RECURSIVE QuadtreeInsertFrom(_, _, _)
\* The `for node in quadrants.iter_mut()` loop, from quadrant k on: the
\* first quadrant whose insert returns true ends the call with true.
QuadtreeInsertFrom(node, item, k) ==
    IF k > Len(node.quadrants) THEN QuadtreeFallThrough(node)
    ELSE LET r     == QuadtreeInsert(node.quadrants[k], item)
             after == [node EXCEPT !.quadrants[k] = r.node]
         IN IF r.ok THEN [node |-> after, ok |-> TRUE]
            ELSE QuadtreeInsertFrom(after, item, k + 1)

QuadtreeInsert(node, item) ==
    IF QuadtreeOutside(node, item) THEN [node |-> node, ok |-> FALSE]
    ELSE IF QuadtreeHasRoom(node) THEN [node |-> QuadtreePush(node, item), ok |-> TRUE]
    ELSE IF node.quadrants # <<>> THEN QuadtreeInsertFrom(node, item, 1)
    ELSE QuadtreeFallThrough(QuadtreeSubdivide(node))

\* A pruning test that keeps a node only if it holds the query's min corner.
QuadtreePrunesUnlessCorner(node, vol) ==
    ~Contains(node.volume, vol.min)

\* get_in_volume, first test: `!self.volume.intersects(vol)`.
QuadtreePrunes(node, vol) ==
    ~Intersects(node.volume, vol)

\* Quadtree::get_in_volume: nothing when the node's volume does not
\* intersect vol; else the node's items inside vol, then every quadrant's
\* result in order.
RECURSIVE QuadtreeGetInVolume(_, _)
RECURSIVE QuadtreeGetInVolumeFrom(_, _, _)
QuadtreeGetInVolumeFrom(quadrants, vol, k) ==
    IF k > Len(quadrants) THEN <<>>
    ELSE QuadtreeGetInVolume(quadrants[k], vol)
            \o QuadtreeGetInVolumeFrom(quadrants, vol, k + 1)

QuadtreeGetInVolume(node, vol) ==
    IF QuadtreePrunes(node, vol) THEN <<>>
    ELSE SelectSeq(node.items, LAMBDA item : Contains(vol, QuadtreeIndex(item)))
            \o QuadtreeGetInVolumeFrom(node.quadrants, vol, 1)

\* A distance that forgets the second axis.
QuadtreeDistance2FirstAxis(index, center) ==
    (index[1] - center[1]) * (index[1] - center[1])

\* (index[i] - center[i]).powf(2), summed over the two axes.
QuadtreeDistance2(index, center) ==
    (index[1] - center[1]) * (index[1] - center[1])
  + (index[2] - center[2]) * (index[2] - center[2])

\* `distance <= radius` with distance = sqrt(d0 + d1).  distance >= 0 and
\* sqrt is monotone, so the test is radius >= 0 and d0 + d1 <= radius^2.
QuadtreeWithinRadius(index, center, radius) ==
    radius >= 0 /\ QuadtreeDistance2(index, center) <= radius * radius

\* The box get_in_radius queries: [center - radius, center + radius].
QuadtreeRadiusBox(center, radius) ==
    VolumeNew(<<center[1] - radius, center[2] - radius>>,
              <<center[1] + radius, center[2] + radius>>)

\* Quadtree::get_in_radius.
QuadtreeGetInRadius(node, center, radius) ==
    SelectSeq(QuadtreeGetInVolume(node, QuadtreeRadiusBox(center, radius)),
              LAMBDA item : QuadtreeWithinRadius(QuadtreeIndex(item), center, radius))

\* ----------------------------------------------------------------- Octree
\* Octree::with_capacity(vol, capacity): an empty node without octants.
OctreeWithCapacity(vol, capacity) ==
    [capacity |-> capacity, items |-> <<>>, volume |-> vol, octants |-> <<>>]

\* Octree::len: own items plus the len of every octant.
RECURSIVE OctreeLen(_)
RECURSIVE OctreeLenFrom(_, _)
OctreeLenFrom(octants, k) ==
    IF k > Len(octants) THEN 0
    ELSE OctreeLen(octants[k]) + OctreeLenFrom(octants, k + 1)

OctreeLen(node) ==
    Len(node.items) + OctreeLenFrom(node.octants, 1)

\* Octree::subdivide: `octants = Some([...])`, eight nodes of the parent's
\* capacity, with the corners the code computes.
OctreeSubdivide(node) ==
    LET cap == node.capacity
        min == node.volume.min
        max == node.volume.max
        hw  == Div2(max[1])
        hh  == Div2(max[2])
        hd  == Div2(max[3])
    IN [node EXCEPT !.octants = <<
          OctreeWithCapacity(VolumeNew(<<min[1], min[2], min[3]>>, <<hw, hh, hd>>), cap),
          OctreeWithCapacity(VolumeNew(<<min[1] + hh, min[2], min[3]>>, <<max[1], hh, hd>>), cap),
          OctreeWithCapacity(VolumeNew(<<min[1], min[2] + hh, min[3]>>, <<hw, max[2], hd>>), cap),
          OctreeWithCapacity(VolumeNew(<<min[1] + hw, min[2] + hh, min[3]>>, <<max[1], max[2], hd>>), cap),
          OctreeWithCapacity(VolumeNew(<<min[1], min[2], hd>>, <<hw, hh, max[3]>>), cap),
          OctreeWithCapacity(VolumeNew(<<min[1] + hh, min[2], hd>>, <<max[1], hh, max[3]>>), cap),
          OctreeWithCapacity(VolumeNew(<<min[1], min[2] + hh, hd>>, <<hw, max[2], max[3]>>), cap),
          OctreeWithCapacity(VolumeNew(<<min[1] + hw, min[2] + hh, hd>>, <<max[1], max[2], max[3]>>), cap)
        >>]

\* insert, first test: the item must lie inside this node's volume.
OctreeOutside(node, item) ==
    ~Contains(node.volume, OctreeIndex(item))

\* insert, second test: `self.items.len() < self.capacity`.
OctreeHasRoom(node) ==
    Len(node.items) < node.capacity

\* insert: `self.items.push(item.clone())`.
OctreePush(node, item) ==
    [node EXCEPT !.items = Append(@, item)]

\* insert: what the call returns once the match on `octants` took the None
\* arm (subdivide) or ran through every octant: the trailing `false`.
OctreeFallThrough(node) ==
    [node |-> node, ok |-> FALSE]

\* Octree::insert.  The result is the node after the call and the bool the
\* call returns.
RECURSIVE OctreeInsert(_, _)
RECURSIVE OctreeInsertFrom(_, _, _)
\* The `for node in octants.iter_mut()` loop, from octant k on.
OctreeInsertFrom(node, item, k) ==
    IF k > Len(node.octants) THEN OctreeFallThrough(node)
    ELSE LET r     == OctreeInsert(node.octants[k], item)
             after == [node EXCEPT !.octants[k] = r.node]
         IN IF r.ok THEN [node |-> after, ok |-> TRUE]
            ELSE OctreeInsertFrom(after, item, k + 1)

OctreeInsert(node, item) ==
    IF OctreeOutside(node, item) THEN [node |-> node, ok |-> FALSE]
    ELSE IF OctreeHasRoom(node) THEN [node |-> OctreePush(node, item), ok |-> TRUE]
    ELSE IF node.octants # <<>> THEN OctreeInsertFrom(node, item, 1)
    ELSE OctreeFallThrough(OctreeSubdivide(node))

\* get_in_volume, first test: `!self.volume.intersects(vol)`.
OctreePrunes(node, vol) ==
    ~Intersects(node.volume, vol)

\* Octree::get_in_volume.
RECURSIVE OctreeGetInVolume(_, _)
RECURSIVE OctreeGetInVolumeFrom(_, _, _)
OctreeGetInVolumeFrom(octants, vol, k) ==
    IF k > Len(octants) THEN <<>>
    ELSE OctreeGetInVolume(octants[k], vol)
            \o OctreeGetInVolumeFrom(octants, vol, k + 1)

OctreeGetInVolume(node, vol) ==
    IF OctreePrunes(node, vol) THEN <<>>
    ELSE SelectSeq(node.items, LAMBDA item : Contains(vol, OctreeIndex(item)))
            \o OctreeGetInVolumeFrom(node.octants, vol, 1)

\* (index[i] - center[i]).powf(2), summed over the three axes.
OctreeDistance2(index, center) ==
    (index[1] - center[1]) * (index[1] - center[1])
  + (index[2] - center[2]) * (index[2] - center[2])
  + (index[3] - center[3]) * (index[3] - center[3])

\* `distance < radius` with distance = sqrt(d0 + d1 + d2).  distance >= 0
\* and sqrt is monotone, so the test is radius > 0 and the sum < radius^2.
OctreeWithinRadius(index, center, radius) ==
    radius > 0 /\ OctreeDistance2(index, center) < radius * radius

\* The box get_in_radius queries: [center - radius, center + radius].
OctreeRadiusBox(center, radius) ==
    VolumeNew(<<center[1] - radius, center[2] - radius, center[3] - radius>>,
              <<center[1] + radius, center[2] + radius, center[3] + radius>>)

\* Octree::get_in_radius.
OctreeGetInRadius(node, center, radius) ==
    SelectSeq(OctreeGetInVolume(node, OctreeRadiusBox(center, radius)),
              LAMBDA item : OctreeWithinRadius(OctreeIndex(item), center, radius))

\* ---------------------------------------------------------- state machine
\* kind      which of the two trees this run builds: "quadtree" or "octree"
\* tree      the root node
\* ninserts  number of insert calls made so far
\* accepted  the items of the insert calls that returned true, in call order
\* last      the last call: its arguments, its result and, for insert, the
\*           root node before the call
VARIABLES kind, tree, ninserts, accepted, last

vars == <<kind, tree, ninserts, accepted, last>>

\* Root volumes handed to with_capacity (grid units): zero and non-zero
\* min, equal and unequal sides.
QuadtreeRoots ==
    { VolumeNew(<<0, 0>>, <<4 * Scale, 4 * Scale>>),
      VolumeNew(<<2 * Scale, 2 * Scale>>, <<4 * Scale, 4 * Scale>>),
      VolumeNew(<<0, 0>>, <<4 * Scale, 2 * Scale>>) }

OctreeRoots ==
    { VolumeNew(<<0, 0, 0>>, <<4 * Scale, 4 * Scale, 4 * Scale>>),
      VolumeNew(<<2 * Scale, 2 * Scale, 2 * Scale>>, <<4 * Scale, 4 * Scale, 4 * Scale>>) }

\* Corners of the volumes handed to get_in_volume, and the centers handed
\* to get_in_radius.
QueryCorners == { Monster(1, 1, 1), Monster(2, 2, 2), Monster(3, 3, 3), Monster(5, 5, 5) }
QueryCenters == { Monster(1, 1, 1), Monster(2, 1, 1), Monster(3, 3, 3) }
Radii == { r * Scale : r \in 0..MaxRadius }

\* Valid volumes only: min[i] <= max[i] on every axis.
QuadtreeQueries(root) ==
    {root} \cup
    { VolumeNew(QuadtreeIndex(a), QuadtreeIndex(b)) :
        <<a, b>> \in { c \in QueryCorners \X QueryCorners :
                         Contains(VolumeNew(QuadtreeIndex(c[1]), QuadtreeIndex(c[2])),
                                  QuadtreeIndex(c[1])) } }

OctreeQueries(root) ==
    {root} \cup
    { VolumeNew(OctreeIndex(a), OctreeIndex(b)) :
        <<a, b>> \in { c \in QueryCorners \X QueryCorners :
                         Contains(VolumeNew(OctreeIndex(c[1]), OctreeIndex(c[2])),
                                  OctreeIndex(c[1])) } }

Init ==
    /\ kind \in {"quadtree", "octree"}
    /\ \E capacity \in 1..MaxCap :
         \/ /\ kind = "quadtree"
            /\ \E vol \in QuadtreeRoots : tree = QuadtreeWithCapacity(vol, capacity)
         \/ /\ kind = "octree"
            /\ \E vol \in OctreeRoots : tree = OctreeWithCapacity(vol, capacity)
    /\ ninserts = 0
    /\ accepted = <<>>
    /\ last = [op |-> "none"]

InsertQuadtree ==
    /\ kind = "quadtree"
    /\ ninserts < MaxInserts
    /\ \E item \in Monsters :
         LET r == QuadtreeInsert(tree, item)
         IN /\ tree' = r.node
            /\ accepted' = IF r.ok THEN Append(accepted, item) ELSE accepted
            /\ last' = [op |-> "insert", item |-> item, ok |-> r.ok, pre |-> tree]
    /\ ninserts' = ninserts + 1
    /\ UNCHANGED kind

GetInVolumeQuadtree ==
    /\ kind = "quadtree"
    /\ \E vol \in QuadtreeQueries(tree.volume) :
         last' = [op |-> "get_in_volume", vol |-> vol,
                  result |-> QuadtreeGetInVolume(tree, vol)]
    /\ UNCHANGED <<kind, tree, ninserts, accepted>>

GetInRadiusQuadtree ==
    /\ kind = "quadtree"
    /\ \E c \in QueryCenters, radius \in Radii :
         last' = [op |-> "get_in_radius", center |-> QuadtreeIndex(c), radius |-> radius,
                  result |-> QuadtreeGetInRadius(tree, QuadtreeIndex(c), radius)]
    /\ UNCHANGED <<kind, tree, ninserts, accepted>>

InsertOctree ==
    /\ kind = "octree"
    /\ ninserts < MaxInserts
    /\ \E item \in Monsters :
         LET r == OctreeInsert(tree, item)
         IN /\ tree' = r.node
            /\ accepted' = IF r.ok THEN Append(accepted, item) ELSE accepted
            /\ last' = [op |-> "insert", item |-> item, ok |-> r.ok, pre |-> tree]
    /\ ninserts' = ninserts + 1
    /\ UNCHANGED kind

GetInVolumeOctree ==
    /\ kind = "octree"
    /\ \E vol \in OctreeQueries(tree.volume) :
         last' = [op |-> "get_in_volume", vol |-> vol,
                  result |-> OctreeGetInVolume(tree, vol)]
    /\ UNCHANGED <<kind, tree, ninserts, accepted>>

GetInRadiusOctree ==
    /\ kind = "octree"
    /\ \E c \in QueryCenters, radius \in Radii :
         last' = [op |-> "get_in_radius", center |-> OctreeIndex(c), radius |-> radius,
                  result |-> OctreeGetInRadius(tree, OctreeIndex(c), radius)]
    /\ UNCHANGED <<kind, tree, ninserts, accepted>>

Next ==
    \/ InsertQuadtree
    \/ GetInVolumeQuadtree
    \/ GetInRadiusQuadtree
    \/ InsertOctree
    \/ GetInVolumeOctree
    \/ GetInRadiusOctree

Spec == Init /\ [][Next]_vars

\* ------------------------------------------------- vocabulary of the claims
\* The projected coordinate of an item in the tree this run builds.
IndexOf(item) == IF kind = "quadtree" THEN QuadtreeIndex(item) ELSE OctreeIndex(item)

\* The children of a node: <<>> for a leaf.
ChildrenOf(node) == IF kind = "quadtree" THEN node.quadrants ELSE node.octants

\* len() of a tree.
LenOf(node) == IF kind = "quadtree" THEN QuadtreeLen(node) ELSE OctreeLen(node)

\* get_in_volume(vol) of a tree.
GetInVolumeOf(node, vol) ==
    IF kind = "quadtree" THEN QuadtreeGetInVolume(node, vol)
    ELSE OctreeGetInVolume(node, vol)

\* insert(item) on a node: the node after the call and the returned bool.
InsertOf(node, item) ==
    IF kind = "quadtree" THEN QuadtreeInsert(node, item) ELSE OctreeInsert(node, item)

\* Number of dimensions, and number of children a subdivision must make.
Dim == IF kind = "quadtree" THEN 2 ELSE 3
Fanout == 2 ^ Dim

IsLeaf(node) == ChildrenOf(node) = <<>>

\* Every node of the tree rooted at node.
RECURSIVE NodesOf(_)
NodesOf(node) ==
    {node} \cup UNION { NodesOf(ChildrenOf(node)[k]) : k \in DOMAIN ChildrenOf(node) }

\* How many times item x occurs in a sequence.
RECURSIVE Count(_, _)
Count(seq, x) ==
    IF seq = <<>> THEN 0
    ELSE (IF Head(seq) = x THEN 1 ELSE 0) + Count(Tail(seq), x)

\* Two sequences hold the same items the same number of times.
SameItems(s, t) ==
    /\ \A k \in DOMAIN s : s[k] \in Monsters
    /\ \A k \in DOMAIN t : t[k] \in Monsters
    /\ \A x \in Monsters : Count(s, x) = Count(t, x)

\* Squared Euclidean distance between two points of the same dimension.
RECURSIVE SqDistFrom(_, _, _)
SqDistFrom(p, c, i) ==
    IF i > Len(p) THEN 0
    ELSE (p[i] - c[i]) * (p[i] - c[i]) + SqDistFrom(p, c, i + 1)

SqDist(p, c) == SqDistFrom(p, c, 1)

\* Euclidean distance(p, c) <= r, for r >= 0.
WithinDistance(p, c, r) == SqDist(p, c) <= r * r

\* The box [center[i] - radius, center[i] + radius] on every axis.
BoxAround(center, radius) ==
    VolumeNew([i \in DOMAIN center |-> center[i] - radius],
              [i \in DOMAIN center |-> center[i] + radius])

\* The last call was insert(item) with item inside the root volume.
LastInsertInBounds ==
    /\ last.op = "insert"
    /\ Contains(last.pre.volume, IndexOf(last.item))

\* ------------------------------------------------------------------ claims
\* C1: insert(item) of an item whose coordinate is contained in the root
\* volume returns true, whatever the tree the earlier inserts built.
C1_InBoundsInsertReturnsTrue ==
    LastInsertInBounds => last.ok

\* C2: len() equals the number of insert calls that returned true; a call
\* returning true raises len() by exactly 1, a call returning false leaves
\* len() unchanged.
C2_LenCountsTrueInserts ==
    /\ LenOf(tree) = Len(accepted)
    /\ last.op = "insert" =>
         LenOf(tree) = LenOf(last.pre) + (IF last.ok THEN 1 ELSE 0)

\* C2 witness: an accepted insert that went into a child of a subdivided
\* root, after an insert that returned false.
C2_Witness ==
    /\ last.op = "insert" /\ last.ok
    /\ ~IsLeaf(tree)
    /\ LenOf(tree) > Len(tree.items)
    /\ Len(accepted) < ninserts

\* C3: get_in_volume(q) returns exactly the accepted items whose coordinate
\* is contained in q, each as often as it was accepted; so the root volume
\* yields every accepted item and a q disjoint from the root volume or an
\* empty tree yields the empty sequence.
C3_GetInVolumeExact ==
    last.op = "get_in_volume" =>
        /\ SameItems(last.result,
                     SelectSeq(accepted, LAMBDA x : Contains(last.vol, IndexOf(x))))
        /\ last.vol = tree.volume => SameItems(last.result, accepted)
        /\ (~Intersects(tree.volume, last.vol) \/ accepted = <<>>) => last.result = <<>>

\* C3 witness: a query on a subdivided tree that prunes one child, finds
\* an item held by another child and leaves out an accepted item.
C3_Witness ==
    /\ last.op = "get_in_volume"
    /\ ~IsLeaf(tree)
    /\ \E k \in DOMAIN ChildrenOf(tree) :
         ~Intersects(ChildrenOf(tree)[k].volume, last.vol)
    /\ \E k \in DOMAIN ChildrenOf(tree), j \in DOMAIN last.result :
         Count(ChildrenOf(tree)[k].items, last.result[j]) > 0
    /\ Len(last.result) < Len(accepted)

\* C4: get_in_radius(center, radius) returns a candidate of the box query
\* if and only if its distance to center is <= radius, in 2D and in 3D.
C4_RadiusBoundaryInclusive ==
    last.op = "get_in_radius" =>
        LET box == GetInVolumeOf(tree, BoxAround(last.center, last.radius))
        IN \A k \in DOMAIN box :
             Count(last.result, box[k]) > 0
                <=> WithinDistance(IndexOf(box[k]), last.center, last.radius)

\* C5: the result of get_in_radius(center, radius), radius >= 0, is a
\* subset of get_in_volume(box around center), and every returned item is
\* at distance <= radius from center.
C5_RadiusSubsetOfBox ==
    last.op = "get_in_radius" =>
        LET box == GetInVolumeOf(tree, BoxAround(last.center, last.radius))
        IN \A k \in DOMAIN last.result :
             /\ Count(last.result, last.result[k]) <= Count(box, last.result[k])
             /\ WithinDistance(IndexOf(last.result[k]), last.center, last.radius)

\* C5 witness: a radius query that returns an item and filters out a
\* candidate of the box query.
C5_Witness ==
    /\ last.op = "get_in_radius"
    /\ last.result # <<>>
    /\ Len(last.result)
         < Len(GetInVolumeOf(tree, BoxAround(last.center, last.radius)))

\* The 2^D volumes that halve vol on every axis at mid = (min + max) / 2.
HalvesOf(vol) ==
    { VolumeNew(
        [i \in 1..Dim |-> IF up[i] THEN (vol.min[i] + vol.max[i]) \div 2 ELSE vol.min[i]],
        [i \in 1..Dim |-> IF up[i] THEN vol.max[i] ELSE (vol.min[i] + vol.max[i]) \div 2])
      : up \in [1..Dim -> BOOLEAN] }

\* C6: every internal node has exactly 2^D children whose volumes are the
\* lower or upper half of the node's volume on every axis, one child per
\* combination.
C6_SubdivideTiles ==
    \A node \in NodesOf(tree) :
        ~IsLeaf(node) =>
            /\ Len(ChildrenOf(node)) = Fanout
            /\ { ChildrenOf(node)[k].volume : k \in DOMAIN ChildrenOf(node) }
                  = HalvesOf(node.volume)
            /\ \A j, k \in DOMAIN ChildrenOf(node) :
                 j # k => ChildrenOf(node)[j].volume # ChildrenOf(node)[k].volume

\* C7: insert(item) of an item whose coordinate is not contained in the
\* root volume returns false and leaves the tree as it was.
C7_OutOfBoundsInsertRejected ==
    (last.op = "insert" /\ ~Contains(last.pre.volume, IndexOf(last.item))) =>
        /\ ~last.ok
        /\ tree = last.pre
        /\ LenOf(tree) = LenOf(last.pre)

\* C7 witness: an out-of-bounds insert on a subdivided tree that holds
\* items in a child.
C7_Witness ==
    /\ last.op = "insert"
    /\ ~Contains(last.pre.volume, IndexOf(last.item))
    /\ ~IsLeaf(last.pre)
    /\ LenOf(last.pre) > Len(last.pre.items)

\* C8: insert(item) on a leaf holding capacity items, item inside the
\* leaf's volume, subdivides the leaf, moves the item and every item the
\* leaf held into a child whose volume contains it, empties the leaf's own
\* items, returns true and raises len() by exactly 1.
C8_FullLeafSplitsAndRedistributes ==
    (LastInsertInBounds /\ IsLeaf(last.pre)
        /\ Len(last.pre.items) = last.pre.capacity) =>
        /\ last.ok
        /\ ~IsLeaf(tree)
        /\ tree.items = <<>>
        /\ LenOf(tree) = LenOf(last.pre) + 1
        /\ LET moved == Append(last.pre.items, last.item)
           IN \A i \in DOMAIN moved :
                \E k \in DOMAIN ChildrenOf(tree) :
                    /\ Contains(ChildrenOf(tree)[k].volume, IndexOf(moved[i]))
                    /\ Count(ChildrenOf(tree)[k].items, moved[i]) > 0

\* The item lies in the volume of two different children of node.
OnSharedBoundary(node, item) ==
    \E j, k \in DOMAIN ChildrenOf(node) :
        /\ j # k
        /\ Contains(ChildrenOf(node)[j].volume, IndexOf(item))
        /\ Contains(ChildrenOf(node)[k].volume, IndexOf(item))

\* No child of node returns true for insert(item).
NoChildAccepts(node, item) ==
    \A k \in DOMAIN ChildrenOf(node) : ~InsertOf(ChildrenOf(node)[k], item).ok

\* C9: an in-bounds item inserted into a subdivided tree that lies on a
\* boundary shared by sibling children, or that no child accepts, is kept:
\* insert returns true and get_in_volume(root volume) returns it exactly
\* once more than before.
C9_BoundaryItemKeptOnce ==
    (LastInsertInBounds /\ ~IsLeaf(last.pre)
        /\ (OnSharedBoundary(last.pre, last.item) \/ NoChildAccepts(last.pre, last.item))) =>
        /\ last.ok
        /\ Count(GetInVolumeOf(tree, tree.volume), last.item)
             = Count(GetInVolumeOf(last.pre, tree.volume), last.item) + 1

\* C10: no node holds more than capacity items, and insert of an item
\* inside the volume of a leaf holding fewer than capacity items appends
\* the item to that leaf, returns true and leaves it a leaf.
C10_LeafWithinCapacity ==
    \A node \in NodesOf(tree) :
        /\ Len(node.items) <= node.capacity
        /\ (IsLeaf(node) /\ Len(node.items) < node.capacity) =>
             \A item \in Monsters :
                Contains(node.volume, IndexOf(item)) =>
                    /\ InsertOf(node, item).ok
                    /\ InsertOf(node, item).node
                         = [node EXCEPT !.items = Append(node.items, item)]
                    /\ IsLeaf(InsertOf(node, item).node)

\* C10 witness: the root is full and subdivided, and the last insert
\* appended to a leaf below it that had room; the leaf is still a leaf
\* holding fewer than capacity items.
C10_Witness ==
    /\ last.op = "insert" /\ last.ok
    /\ ~IsLeaf(last.pre)
    /\ Len(tree.items) = tree.capacity
    /\ \E k \in DOMAIN ChildrenOf(tree) :
         /\ IsLeaf(ChildrenOf(tree)[k])
         /\ Len(ChildrenOf(tree)[k].items) = Len(ChildrenOf(last.pre)[k].items) + 1
         /\ Len(ChildrenOf(tree)[k].items) < ChildrenOf(tree)[k].capacity

====
